---- MODULE Spec2Model ----
(***************************************************************************)
(* Model of the event-content codec of ruma:                               *)
(*   - crates/ruma-events/src/room/create.rs : RoomCreateEventContent,     *)
(*     its constructors and its version-conditioned redaction;             *)
(*   - crates/ruma-common/src/events/room/message/content_serde.rs :       *)
(*     the two-pass Deserialize implementation of MessageType and the      *)
(*     stable/unstable field resolution of the file and image shapes;      *)
(*   - crates/ruma-identifiers-validation/src/room_id.rs and               *)
(*     room_id_or_alias_id.rs : the identifier validators;                 *)
(*   - crates/ruma-events/src/space/child.rs : SpaceChildEventContent.     *)
(* Each component has its own specification (SpecCreate, SpecMessage,      *)
(* SpecAlias, SpecIdent, SpecCodec); the variables of the components a     *)
(* specification does not drive stay at their initial value.               *)
(***************************************************************************)
EXTENDS Integers, Sequences, FiniteSets, TLC

VARIABLES
    unstable_msc3917, \* build variant: cfg(feature = "unstable-msc3917")
    content,          \* the RoomCreateEventContent value currently held
    input,            \* the value the last redact() call consumed (self)
    version,          \* the version argument of the last redact() call
    prevVersion,      \* the version argument of the redact() call before it
    retained,         \* fields the last redact() call carried over from self
    prevRetained,     \* fields the redact() call before it carried over
    calls,            \* number of redact() calls applied to this content
    json,             \* the raw JSON value handed to MessageType::deserialize
    decoded,          \* the Result of MessageType::deserialize(json)
    encoded,          \* the JSON object written back from `decoded`
    roomMessage,      \* the Result of RoomMessageEventContent::deserialize
    dehelper,         \* the *DeHelper record handed to From::from
    resolved,         \* the content From::from built from `dehelper`
    passes,           \* number of From::from runs on this record
    candidate,        \* the string handed to the identifier validators
    outcome,          \* the Results the identifier validators returned
    value,            \* the content value handed to Serialize
    wire,             \* the JSON object Serialize wrote for `value`
    parsed,           \* the Result of Deserialize on `wire`
    raw,              \* the JSON object met under an event's `unsigned` key
    unsignedData      \* the unsigned value built by new() or decoded from `raw`

createVars == <<content, input, version, prevVersion, retained, prevRetained, calls>>
messageVars == <<json, decoded, encoded, roomMessage>>
aliasVars == <<dehelper, resolved, passes>>
identVars == <<candidate, outcome>>
codecVars == <<value, wire, parsed>>
unsignedVars == <<raw, unsignedData>>
vars == <<unstable_msc3917, content, input, version, prevVersion, retained,
          prevRetained, calls, json, decoded, encoded, roomMessage, dehelper, resolved,
          passes, candidate, outcome, value, wire, parsed, raw, unsignedData>>

\* Option::None
None == "None"

\* Placeholder for "no call has happened yet"
NoCall == "no-call"

(***************************************************************************)
(* Bounds                                                                  *)
(***************************************************************************)
\* redact() calls chained on one content value
MaxCalls == 2

(***************************************************************************)
(* ruma_common::RoomVersionId                                              *)
(***************************************************************************)
V1 == "1"
V4 == "4"
V10 == "10"
V11 == "11"

\* the variants named in the match of redact()
LegacyVersions == {"1", "2", "3", "4", "5", "6", "7", "8", "9", "10"}

\* versions the enum has no variant for (RoomVersionId::_Custom)
CustomVersions == {"12", "org.example.custom"}

RoomVersionId == LegacyVersions \cup {V11} \cup CustomVersions

(***************************************************************************)
(* RoomCreateEventContent                                                  *)
(***************************************************************************)
UserIds == {"@carl:example.com", "@alice:example.com"}

\* PreviousRoom { room_id, event_id }, written room_id/event_id
PreviousRoom == {"!old:example.com/$last"}

RoomType == {"m.space"}

Msc3917Fields == {"room_root_key", "creator_key", "invited_user_keys", "signatures"}

BaseFields == {"creator", "federate", "room_version", "predecessor", "room_type"}

\* the fields the struct has in the given build variant
Fields(msc) == IF msc THEN BaseFields \cup Msc3917Fields ELSE BaseFields

\* values a field of the struct can hold; the msc3917 fields do not exist
\* without the feature and are carried as None
FieldDomain(f, msc) ==
    CASE f = "creator" -> UserIds \cup {None}
      [] f = "federate" -> BOOLEAN
      [] f = "room_version" -> {V1, V4, V11}
      [] f = "predecessor" -> PreviousRoom \cup {None}
      [] f = "room_type" -> RoomType \cup {None}
      [] f = "room_root_key" -> IF msc THEN {"rrk", None} ELSE {None}
      [] f = "creator_key" -> IF msc THEN {"msk", None} ELSE {None}
      [] f = "invited_user_keys" -> IF msc THEN {"keys", None} ELSE {None}
      [] f = "signatures" -> IF msc THEN {"sigs", None} ELSE {None}

RoomCreateEventContent(msc) ==
    [creator : FieldDomain("creator", msc),
     federate : FieldDomain("federate", msc),
     room_version : FieldDomain("room_version", msc),
     predecessor : FieldDomain("predecessor", msc),
     room_type : FieldDomain("room_type", msc),
     room_root_key : FieldDomain("room_root_key", msc),
     creator_key : FieldDomain("creator_key", msc),
     invited_user_keys : FieldDomain("invited_user_keys", msc),
     signatures : FieldDomain("signatures", msc)]

default_room_version_id == V1

new_v1(creator) ==
    [creator |-> creator,
     federate |-> TRUE,
     room_version |-> default_room_version_id,
     predecessor |-> None,
     room_type |-> None,
     room_root_key |-> None,
     creator_key |-> None,
     invited_user_keys |-> None,
     signatures |-> None]

new_v11 ==
    [creator |-> None,
     federate |-> TRUE,
     room_version |-> V11,
     predecessor |-> None,
     room_type |-> None,
     room_root_key |-> None,
     creator_key |-> None,
     invited_user_keys |-> None,
     signatures |-> None]

\* redact() with the struct update taken from self instead of new_v11()
redact_updateFromSelf(self, v) ==
    IF v \in LegacyVersions
    THEN [self EXCEPT !.room_version = default_room_version_id]
    ELSE self

\* redact() whose legacy arm also copies room_type over
redact_keepsRoomType(self, v) ==
    IF v \in LegacyVersions
    THEN [new_v11 EXCEPT !.room_version = default_room_version_id,
                         !.creator = self.creator,
                         !.room_type = self.room_type]
    ELSE self

\* redact() whose legacy arm also lists RoomVersionId::V11
redact_v11Legacy(self, v) ==
    IF v \in LegacyVersions \cup {V11}
    THEN [new_v11 EXCEPT !.room_version = default_room_version_id,
                         !.creator = self.creator]
    ELSE self

\* redact() whose legacy arm writes federate: !self.federate
redact_flipsFederate(self, v) ==
    IF v \in LegacyVersions
    THEN [new_v11 EXCEPT !.room_version = default_room_version_id,
                         !.creator = self.creator,
                         !.federate = ~self.federate]
    ELSE self

\* redact() whose fallback arm removes creator
redact_fallbackDropsCreator(self, v) ==
    IF v \in LegacyVersions
    THEN [new_v11 EXCEPT !.room_version = default_room_version_id,
                         !.creator = self.creator]
    ELSE [self EXCEPT !.creator = None]

\* redact() whose legacy arm keeps the predecessor of creator-less content
redact_predecessorIfNoCreator(self, v) ==
    IF v \in LegacyVersions
    THEN [new_v11 EXCEPT !.room_version = default_room_version_id,
                         !.creator = self.creator,
                         !.predecessor = IF self.creator = None
                                         THEN self.predecessor ELSE None]
    ELSE self

\* impl RedactContent for RoomCreateEventContent
redact(self, v) ==
    IF v \in LegacyVersions
    THEN [new_v11 EXCEPT !.room_version = default_room_version_id,
                         !.creator = self.creator]
    ELSE self

\* The field f of self survives redact(self, v): whatever value the field
\* holds, the redacted content holds the same value.
FieldRetained(self, v, f, msc) ==
    \A x \in FieldDomain(f, msc) : redact([self EXCEPT ![f] = x], v)[f] = x

RetainedSet(self, v, msc) == {f \in Fields(msc) : FieldRetained(self, v, f, msc)}

(***************************************************************************)
(* Raw JSON values (serde_json::value::RawValue)                           *)
(***************************************************************************)
\* array payloads have at most this many elements
MaxArrayLen == 2

\* a JSON value of a key or an array element, written <<type, text>>
JsonString(str) == <<"string", str>>
JsonNumber == <<"number", "1">>
JsonNull == <<"null", "null">>
\* the key is not in the object
Absent == <<"absent", "">>

IsString(val) == val[1] = "string"

\* the JSON type of a value
Tag(val) == val[1]

\* the discriminators the match of MessageType::deserialize names
KnownMsgtypes ==
    {"m.audio", "m.emote", "m.file", "m.image", "m.location", "m.notice",
     "m.server_notice", "m.text", "m.video", "m.key.verification.request"}

UnknownMsgtypes == {"m.sticker_custom", "org.example.poll"}

Keys == {"msgtype", "body", "org.example.extra", "m.relates_to"}

KeyValues(k) ==
    CASE k = "msgtype" ->
            {JsonString(m) : m \in KnownMsgtypes \cup UnknownMsgtypes}
                \cup {JsonNumber, JsonNull, Absent}
      [] k = "body" -> {JsonString("hi"), JsonString("x"), JsonNumber, Absent}
      [] k = "org.example.extra" -> {JsonString("y"), Absent}
      [] k = "m.relates_to" -> {<<"object", "reply">>, JsonNumber, Absent}

JsonObjects ==
    {[k \in Keys |-> CASE k = "msgtype" -> t[1]
                       [] k = "body" -> t[2]
                       [] k = "org.example.extra" -> t[3]
                       [] k = "m.relates_to" -> t[4]] :
        t \in KeyValues("msgtype") \X KeyValues("body")
                \X KeyValues("org.example.extra") \X KeyValues("m.relates_to")}

NoFields == [k \in Keys |-> Absent]

ArrayElements == {JsonString("m.text"), JsonString("m.sticker_custom"), JsonNumber}

JsonArrays == UNION {[1..n -> ArrayElements] : n \in 0..MaxArrayLen}

\* kind "malformed" is text that is not JSON at all
RawJsonValue ==
    [kind : {"object"}, fields : JsonObjects, elems : {<<>>}]
        \cup [kind : {"array"}, fields : {NoFields}, elems : JsonArrays]
        \cup [kind : {"string", "number", "null", "malformed"},
              fields : {NoFields}, elems : {<<>>}]

\* no value has been handed to the decoder yet
NoJson == [kind |-> "none", fields |-> NoFields, elems |-> <<>>]

(***************************************************************************)
(* MessageType::deserialize                                                *)
(***************************************************************************)
Err(e) ==
    [ok |-> FALSE, variant |-> "none", msgtype |-> "", body |-> "",
     data |-> NoFields, err |-> e]

Ok(variant, msgtype, body, data) ==
    [ok |-> TRUE, variant |-> variant, msgtype |-> msgtype, body |-> body,
     data |-> data, err |-> ""]

NotDecoded == Err("not-run")

\* nothing has been written back yet
NotEncoded == [done |-> FALSE, fields |-> NoFields]

\* Box::<RawJsonValue>::deserialize: any well-formed JSON text is accepted
RawJsonValue_deserialize(j) == j.kind # "malformed"

\* MessageTypeDeHelper whose msgtype field defaults to "m.text"
MessageTypeDeHelper_defaultsToText(j) ==
    CASE j.kind = "object" ->
            IF j.fields["msgtype"] = Absent THEN Ok("helper", "m.text", "", NoFields)
            ELSE IF ~IsString(j.fields["msgtype"]) THEN Err("msgtype: invalid type")
            ELSE Ok("helper", j.fields["msgtype"][2], "", NoFields)
      [] j.kind = "array" ->
            IF Len(j.elems) = 0 THEN Ok("helper", "m.text", "", NoFields)
            ELSE IF ~IsString(j.elems[1]) THEN Err("msgtype: invalid type")
            ELSE IF Len(j.elems) > 1 THEN Err("trailing characters")
            ELSE Ok("helper", j.elems[1][2], "", NoFields)
      [] OTHER -> Err("invalid type")

\* #[derive(Deserialize)] struct MessageTypeDeHelper { msgtype: String }
\* A derived struct reads a JSON object by key (other keys are ignored) and
\* a JSON array by position; every other JSON value is an invalid type.
MessageTypeDeHelper_deserialize(j) ==
    CASE j.kind = "object" ->
            IF j.fields["msgtype"] = Absent THEN Err("missing field msgtype")
            ELSE IF ~IsString(j.fields["msgtype"]) THEN Err("msgtype: invalid type")
            ELSE Ok("helper", j.fields["msgtype"][2], "", NoFields)
      [] j.kind = "array" ->
            IF Len(j.elems) = 0 THEN Err("invalid length 0")
            ELSE IF ~IsString(j.elems[1]) THEN Err("msgtype: invalid type")
            ELSE IF Len(j.elems) > 1 THEN Err("trailing characters")
            ELSE Ok("helper", j.elems[1][2], "", NoFields)
      [] OTHER -> Err("invalid type")

\* The concrete content shapes (AudioMessageEventContent, ...): a JSON object
\* with a string body.
ConcreteShape_deserialize(variant, j) ==
    IF j.kind # "object" THEN Err("shape: invalid type")
    ELSE IF j.fields["body"] = Absent THEN Err("shape: missing field body")
    ELSE IF ~IsString(j.fields["body"]) THEN Err("shape: body: invalid type")
    ELSE Ok(variant, j.fields["msgtype"][2], j.fields["body"][2], NoFields)

\* The custom content shape: any JSON object with a string msgtype, kept whole.
CustomEventContent_deserialize(j) ==
    IF j.kind # "object" THEN Err("shape: invalid type")
    ELSE IF ~IsString(j.fields["msgtype"]) THEN Err("shape: msgtype")
    ELSE Ok("_Custom", j.fields["msgtype"][2],
            IF IsString(j.fields["body"]) THEN j.fields["body"][2] ELSE "",
            j.fields)

\* the match of MessageType::deserialize with the m.notice arm building Text
MessageType_select_noticeAsText(msgtype, j) ==
    CASE msgtype = "m.audio" -> ConcreteShape_deserialize("Audio", j)
      [] msgtype = "m.emote" -> ConcreteShape_deserialize("Emote", j)
      [] msgtype = "m.file" -> ConcreteShape_deserialize("File", j)
      [] msgtype = "m.image" -> ConcreteShape_deserialize("Image", j)
      [] msgtype = "m.location" -> ConcreteShape_deserialize("Location", j)
      [] msgtype = "m.notice" -> ConcreteShape_deserialize("Text", j)
      [] msgtype = "m.server_notice" -> ConcreteShape_deserialize("ServerNotice", j)
      [] msgtype = "m.text" -> ConcreteShape_deserialize("Text", j)
      [] msgtype = "m.video" -> ConcreteShape_deserialize("Video", j)
      [] msgtype = "m.key.verification.request" ->
            ConcreteShape_deserialize("VerificationRequest", j)
      [] OTHER -> CustomEventContent_deserialize(j)

\* the match of MessageType::deserialize without the fallback arm building
\* _Custom
MessageType_select_unknownIsError(msgtype, j) ==
    CASE msgtype = "m.audio" -> ConcreteShape_deserialize("Audio", j)
      [] msgtype = "m.emote" -> ConcreteShape_deserialize("Emote", j)
      [] msgtype = "m.file" -> ConcreteShape_deserialize("File", j)
      [] msgtype = "m.image" -> ConcreteShape_deserialize("Image", j)
      [] msgtype = "m.location" -> ConcreteShape_deserialize("Location", j)
      [] msgtype = "m.notice" -> ConcreteShape_deserialize("Notice", j)
      [] msgtype = "m.server_notice" -> ConcreteShape_deserialize("ServerNotice", j)
      [] msgtype = "m.text" -> ConcreteShape_deserialize("Text", j)
      [] msgtype = "m.video" -> ConcreteShape_deserialize("Video", j)
      [] msgtype = "m.key.verification.request" ->
            ConcreteShape_deserialize("VerificationRequest", j)
      [] OTHER -> Err("unknown variant")

\* a concrete shape's error replaced by the custom variant
OrCustom(r, j) == IF r.ok THEN r ELSE CustomEventContent_deserialize(j)

\* the match of MessageType::deserialize falling back to the custom shape
\* when the selected concrete shape rejects the payload
MessageType_select_shapeErrorIsCustom(msgtype, j) ==
    CASE msgtype = "m.audio" -> OrCustom(ConcreteShape_deserialize("Audio", j), j)
      [] msgtype = "m.emote" -> OrCustom(ConcreteShape_deserialize("Emote", j), j)
      [] msgtype = "m.file" -> OrCustom(ConcreteShape_deserialize("File", j), j)
      [] msgtype = "m.image" -> OrCustom(ConcreteShape_deserialize("Image", j), j)
      [] msgtype = "m.location" -> OrCustom(ConcreteShape_deserialize("Location", j), j)
      [] msgtype = "m.notice" -> OrCustom(ConcreteShape_deserialize("Notice", j), j)
      [] msgtype = "m.server_notice" -> OrCustom(ConcreteShape_deserialize("ServerNotice", j), j)
      [] msgtype = "m.text" -> OrCustom(ConcreteShape_deserialize("Text", j), j)
      [] msgtype = "m.video" -> OrCustom(ConcreteShape_deserialize("Video", j), j)
      [] msgtype = "m.key.verification.request" -> OrCustom(ConcreteShape_deserialize("VerificationRequest", j), j)
      [] OTHER -> CustomEventContent_deserialize(j)

\* the match of MessageType::deserialize whose fallback arm decodes the
\* custom variant through a concrete shape (string body, other keys dropped)
MessageType_select_customThroughShape(msgtype, j) ==
    CASE msgtype = "m.audio" -> ConcreteShape_deserialize("Audio", j)
      [] msgtype = "m.emote" -> ConcreteShape_deserialize("Emote", j)
      [] msgtype = "m.file" -> ConcreteShape_deserialize("File", j)
      [] msgtype = "m.image" -> ConcreteShape_deserialize("Image", j)
      [] msgtype = "m.location" -> ConcreteShape_deserialize("Location", j)
      [] msgtype = "m.notice" -> ConcreteShape_deserialize("Notice", j)
      [] msgtype = "m.server_notice" -> ConcreteShape_deserialize("ServerNotice", j)
      [] msgtype = "m.text" -> ConcreteShape_deserialize("Text", j)
      [] msgtype = "m.video" -> ConcreteShape_deserialize("Video", j)
      [] msgtype = "m.key.verification.request" -> ConcreteShape_deserialize("VerificationRequest", j)
      [] OTHER -> ConcreteShape_deserialize("_Custom", j)

\* match msgtype.as_ref() { ... }: the second pass over the same raw value
MessageType_select(msgtype, j) ==
    CASE msgtype = "m.audio" -> ConcreteShape_deserialize("Audio", j)
      [] msgtype = "m.emote" -> ConcreteShape_deserialize("Emote", j)
      [] msgtype = "m.file" -> ConcreteShape_deserialize("File", j)
      [] msgtype = "m.image" -> ConcreteShape_deserialize("Image", j)
      [] msgtype = "m.location" -> ConcreteShape_deserialize("Location", j)
      [] msgtype = "m.notice" -> ConcreteShape_deserialize("Notice", j)
      [] msgtype = "m.server_notice" -> ConcreteShape_deserialize("ServerNotice", j)
      [] msgtype = "m.text" -> ConcreteShape_deserialize("Text", j)
      [] msgtype = "m.video" -> ConcreteShape_deserialize("Video", j)
      [] msgtype = "m.key.verification.request" ->
            ConcreteShape_deserialize("VerificationRequest", j)
      [] OTHER -> CustomEventContent_deserialize(j)

\* Serialize of MessageType: a known variant writes its msgtype tag and its
\* body; the custom variant writes its msgtype and the object it kept.
MessageType_serialize(m) ==
    IF m.variant = "_Custom"
    THEN [k \in Keys |-> IF k = "msgtype" THEN JsonString(m.msgtype) ELSE m.data[k]]
    ELSE [k \in Keys |-> CASE k = "msgtype" -> JsonString(m.msgtype)
                            [] k = "body" -> JsonString(m.body)
                            [] OTHER -> Absent]

\* impl Deserialize for MessageType
MessageType_deserialize(j) ==
    IF ~RawJsonValue_deserialize(j) THEN Err("syntax")
    ELSE LET helper == MessageTypeDeHelper_deserialize(j)
         IN  IF ~helper.ok THEN Err(helper.err)
             ELSE MessageType_select(helper.msgtype, j)

(***************************************************************************)
(* RoomMessageEventContent::deserialize                                    *)
(***************************************************************************)
NoRoomMessage ==
    [done |-> FALSE, input |-> NoJson, ok |-> FALSE, err |-> "not-run",
     msgtype |-> NotDecoded, relates_to |-> None]

RoomMessageErr(j, e) ==
    [done |-> TRUE, input |-> j, ok |-> FALSE, err |-> e,
     msgtype |-> NotDecoded, relates_to |-> None]

RoomMessageOk(j, m, r) ==
    [done |-> TRUE, input |-> j, ok |-> TRUE, err |-> "",
     msgtype |-> m, relates_to |-> r]

\* Option::<Relation>::deserialize on a deserializer over the raw text: null
\* is None, an object gives the relation under m.relates_to if it has one
OptionRelation_deserialize(j) ==
    CASE j.kind = "null" -> [ok |-> TRUE, value |-> None, err |-> ""]
      [] j.kind = "object" ->
            IF j.fields["m.relates_to"] = Absent
            THEN [ok |-> TRUE, value |-> None, err |-> ""]
            ELSE IF Tag(j.fields["m.relates_to"]) # "object"
            THEN [ok |-> FALSE, value |-> None, err |-> "relation: invalid type"]
            ELSE [ok |-> TRUE, value |-> j.fields["m.relates_to"][2], err |-> ""]
      [] OTHER -> [ok |-> FALSE, value |-> None, err |-> "relation: invalid type"]

\* RoomMessageEventContent::deserialize decoding the msgtype before the
\* relation
RoomMessageEventContent_deserialize_msgtypeFirst(j) ==
    IF ~RawJsonValue_deserialize(j) THEN RoomMessageErr(j, "syntax")
    ELSE LET msgtype == MessageType_deserialize(j)
         IN  IF ~msgtype.ok THEN RoomMessageErr(j, msgtype.err)
             ELSE LET relates_to == OptionRelation_deserialize(j)
                  IN  IF ~relates_to.ok THEN RoomMessageErr(j, relates_to.err)
                      ELSE RoomMessageOk(j, msgtype, relates_to.value)

\* impl Deserialize for RoomMessageEventContent: the relation is decoded from
\* a deserializer over json.get(), the msgtype from the same json
RoomMessageEventContent_deserialize(j) ==
    IF ~RawJsonValue_deserialize(j) THEN RoomMessageErr(j, "syntax")
    ELSE LET relates_to == OptionRelation_deserialize(j)
         IN  IF ~relates_to.ok THEN RoomMessageErr(j, relates_to.err)
             ELSE LET msgtype == MessageType_deserialize(j)
                  IN  IF ~msgtype.ok THEN RoomMessageErr(j, msgtype.err)
                      ELSE RoomMessageOk(j, msgtype, relates_to.value)

(***************************************************************************)
(* Stable/unstable field resolution of the file and image shapes           *)
(***************************************************************************)
\* From::from runs on one record
MaxPasses == 2

\* Option of a composite: <<>> is None, <<x>> is Some(x)
NoneOpt == <<>>
Some(x) == <<x>>

\* FileContent { url, info }: info is the optional sub-structure
FileContent ==
    {[url |-> "mxc://a", info |-> None],
     [url |-> "mxc://a", info |-> "enc-a"],
     [url |-> "mxc://b", info |-> "enc-b"]}

ImageContent == {"64x64", "128x128"}

\* Vec<ThumbnailContent>, the empty Vec included
Thumbnails == {<<>>, <<"thumb">>}

MessageContent == {"caption a", "caption b"}

OptionOf(S) == {NoneOpt} \cup {Some(x) : x \in S}

\* Option::or
Option_or(a, b) == IF a # NoneOpt THEN a ELSE b

\* Option::and
Option_and(a, b) == IF a # NoneOpt THEN b ELSE NoneOpt

\* FileMessageEventContentDeHelper; the slots the struct does not have are
\* carried as None
FileMessageEventContentDeHelper ==
    [shape : {"file"}, body : {"a.txt", "b.txt"}, filename : {None, "a.txt"},
     source : {"mxc://src"}, info : {None, "file-info"}, message : {None},
     file_stable : OptionOf(FileContent), file_unstable : OptionOf(FileContent),
     image_stable : {NoneOpt}, image_unstable : {NoneOpt},
     thumbnail_stable : {NoneOpt}, thumbnail_unstable : {NoneOpt},
     caption_stable : {NoneOpt}, caption_unstable : {NoneOpt}]

\* ImageMessageEventContentDeHelper
ImageMessageEventContentDeHelper ==
    [shape : {"image"}, body : {"a.png"}, filename : {None},
     source : {"mxc://src"}, info : {None, "image-info"}, message : {None},
     file_stable : OptionOf(FileContent), file_unstable : OptionOf(FileContent),
     image_stable : OptionOf(ImageContent), image_unstable : OptionOf(ImageContent),
     thumbnail_stable : OptionOf(Thumbnails), thumbnail_unstable : OptionOf(Thumbnails),
     caption_stable : OptionOf(MessageContent), caption_unstable : OptionOf(MessageContent)]

\* From<FileMessageEventContentDeHelper> resolving file as unstable.or(stable)
FileMessageEventContent_from_unstableFirst(h) ==
    [shape |-> "file", body |-> h.body, filename |-> h.filename,
     source |-> h.source, info |-> h.info, message |-> h.message,
     file |-> Option_or(h.file_unstable, h.file_stable),
     image |-> NoneOpt, thumbnail |-> NoneOpt, caption |-> NoneOpt]

\* From<FileMessageEventContentDeHelper> filling the sub-fields the stable
\* file leaves unset from the unstable file
FileMessageEventContent_from_mergesSubfields(h) ==
    [shape |-> "file", body |-> h.body, filename |-> h.filename,
     source |-> h.source, info |-> h.info, message |-> h.message,
     file |-> IF h.file_stable # NoneOpt /\ h.file_unstable # NoneOpt
                   /\ h.file_stable[1].info = None
              THEN Some([h.file_stable[1] EXCEPT !.info = h.file_unstable[1].info])
              ELSE Option_or(h.file_stable, h.file_unstable),
     image |-> NoneOpt, thumbnail |-> NoneOpt, caption |-> NoneOpt]

\* impl From<FileMessageEventContentDeHelper> for FileMessageEventContent
FileMessageEventContent_from(h) ==
    [shape |-> "file", body |-> h.body, filename |-> h.filename,
     source |-> h.source, info |-> h.info, message |-> h.message,
     file |-> Option_or(h.file_stable, h.file_unstable),
     image |-> NoneOpt, thumbnail |-> NoneOpt, caption |-> NoneOpt]

\* From<ImageMessageEventContentDeHelper> resolving thumbnail with
\* Option::and instead of Option::or
ImageMessageEventContent_from_thumbnailAnd(h) ==
    [shape |-> "image", body |-> h.body, filename |-> None,
     source |-> h.source, info |-> h.info, message |-> h.message,
     file |-> Option_or(h.file_stable, h.file_unstable),
     image |-> Option_or(h.image_stable, h.image_unstable),
     thumbnail |-> Option_and(h.thumbnail_stable, h.thumbnail_unstable),
     caption |-> Option_or(h.caption_stable, h.caption_unstable)]

\* impl From<ImageMessageEventContentDeHelper> for ImageMessageEventContent
ImageMessageEventContent_from(h) ==
    [shape |-> "image", body |-> h.body, filename |-> None,
     source |-> h.source, info |-> h.info, message |-> h.message,
     file |-> Option_or(h.file_stable, h.file_unstable),
     image |-> Option_or(h.image_stable, h.image_unstable),
     thumbnail |-> Option_or(h.thumbnail_stable, h.thumbnail_unstable),
     caption |-> Option_or(h.caption_stable, h.caption_unstable)]

\* the helper record read from a content written under stable keys only
CanonicalHelper(c) ==
    [shape |-> c.shape, body |-> c.body, filename |-> c.filename,
     source |-> c.source, info |-> c.info, message |-> c.message,
     file_stable |-> c.file, file_unstable |-> NoneOpt,
     image_stable |-> c.image, image_unstable |-> NoneOpt,
     thumbnail_stable |-> c.thumbnail, thumbnail_unstable |-> NoneOpt,
     caption_stable |-> c.caption, caption_unstable |-> NoneOpt]

(***************************************************************************)
(* Identifier validation                                                   *)
(***************************************************************************)
\* candidate identifiers spell out at most this many leading bytes
MaxIdLen == 4

\* longest identifier the grammars accept, in bytes
MAX_BYTES == 255

IdBytes == {"#", "!", ":", "a"}

\* A candidate string: its leading bytes, and whether a run of `a` bytes
\* longer than MAX_BYTES follows them.
Candidates ==
    [chars : UNION {[1..n -> IdBytes] : n \in 0..MaxIdLen}, long : BOOLEAN]

NoCandidate == [chars |-> <<>>, long |-> FALSE]

NoOutcome == [room_id |-> "none", alias |-> "none", union |-> "none"]

\* s.len()
ByteLen(s) == Len(s.chars) + (IF s.long THEN MAX_BYTES + 1 ELSE 0)

\* s.as_bytes().first(); "" when the string is empty
FirstByte(s) ==
    IF Len(s.chars) > 0 THEN s.chars[1] ELSE IF s.long THEN "a" ELSE ""

\* s.find(':'); 0 when there is none
ColonIndex(s) ==
    IF \E i \in 1..Len(s.chars) : s.chars[i] = ":"
    THEN CHOOSE i \in 1..Len(s.chars) :
            /\ s.chars[i] = ":"
            /\ \A k \in 1..(i - 1) : s.chars[k] # ":"
    ELSE 0

\* the server name after the colon at index i: a non-empty run of `a` bytes
ServerNameOk(s, i) ==
    /\ \A k \in (i + 1)..Len(s.chars) : s.chars[k] = "a"
    /\ (Len(s.chars) > i \/ s.long)

\* crate::validate_id: leading sigil, then the non-delimited grammar
validate_id(s, sigils) ==
    IF FirstByte(s) \notin sigils THEN "MissingLeadingSigil"
    ELSE IF ByteLen(s) > MAX_BYTES THEN "MaximumLengthExceeded"
    ELSE "Ok"

\* crate::validate_delimited_id: validate_id, then the delimited grammar
validate_delimited_id(s, sigils) ==
    IF validate_id(s, sigils) # "Ok" THEN validate_id(s, sigils)
    ELSE IF ColonIndex(s) = 0 THEN "MissingColon"
    ELSE IF ~ServerNameOk(s, ColonIndex(s)) THEN "InvalidServerName"
    ELSE "Ok"

\* crate::room_alias_id::validate
room_alias_id_validate(s) == validate_delimited_id(s, {"#"})

\* room_id::validate, in both build variants
room_id_validate(s, msc) ==
    IF msc THEN validate_id(s, {"!"}) ELSE validate_id(s, {"!"})

\* room_id_or_alias_id::validate accepting only when both grammars accept
room_id_or_alias_id_validate_bothRequired(s, msc) ==
    IF ~msc
    THEN CASE FirstByte(s) = "#" -> room_alias_id_validate(s)
           [] FirstByte(s) = "!" -> room_id_validate(s, msc)
           [] OTHER -> "MissingLeadingSigil"
    ELSE LET alias_result == validate_delimited_id(s, {"#"})
             room_id_result == validate_id(s, {"!"})
         IN  IF room_id_result = "Ok" /\ alias_result = "Ok" THEN "Ok"
             ELSE IF alias_result # "Ok" THEN alias_result
             ELSE room_id_result

\* room_id_or_alias_id::validate surfacing the room-id error first
room_id_or_alias_id_validate_roomIdErrorFirst(s, msc) ==
    IF ~msc
    THEN CASE FirstByte(s) = "#" -> room_alias_id_validate(s)
           [] FirstByte(s) = "!" -> room_id_validate(s, msc)
           [] OTHER -> "MissingLeadingSigil"
    ELSE LET alias_result == validate_delimited_id(s, {"#"})
             room_id_result == validate_id(s, {"!"})
         IN  IF room_id_result = "Ok" \/ alias_result = "Ok" THEN "Ok"
             ELSE IF room_id_result # "Ok" THEN room_id_result
             ELSE alias_result

\* room_id_or_alias_id::validate with the '#' and '!' arms exchanged
room_id_or_alias_id_validate_armsSwapped(s, msc) ==
    IF ~msc
    THEN CASE FirstByte(s) = "#" -> room_id_validate(s, msc)
           [] FirstByte(s) = "!" -> room_alias_id_validate(s)
           [] OTHER -> "MissingLeadingSigil"
    ELSE LET alias_result == validate_delimited_id(s, {"#"})
             room_id_result == validate_id(s, {"!"})
         IN  IF room_id_result = "Ok" \/ alias_result = "Ok" THEN "Ok"
             ELSE IF alias_result # "Ok" THEN alias_result
             ELSE room_id_result

\* room_id_or_alias_id::validate: first-byte dispatch without msc3917,
\* both grammars evaluated with msc3917
room_id_or_alias_id_validate(s, msc) ==
    IF ~msc
    THEN CASE FirstByte(s) = "#" -> room_alias_id_validate(s)
           [] FirstByte(s) = "!" -> room_id_validate(s, msc)
           [] OTHER -> "MissingLeadingSigil"
    ELSE LET alias_result == validate_delimited_id(s, {"#"})
             room_id_result == validate_id(s, {"!"})
         IN  IF room_id_result = "Ok" \/ alias_result = "Ok" THEN "Ok"
             ELSE IF alias_result # "Ok" THEN alias_result
             ELSE room_id_result

(***************************************************************************)
(* Serialize of RoomCreateEventContent and SpaceChildEventContent          *)
(***************************************************************************)
\* via lists at most this many servers
MaxVia == 2

JsonBool(b) == <<"bool", IF b THEN "true" ELSE "false">>

\* a field with skip_serializing_if = "Option::is_none" holding a string
OptionalString(x) == IF x = None THEN Absent ELSE JsonString(x)

\* the keys the serialized m.room.create content can have
CreateKeys(msc) ==
    {"creator", "m.federate", "room_version", "predecessor", "type"}
        \cup (IF msc THEN {"org.matrix.msc3917.v1.room_root_key",
                           "org.matrix.msc3917.v1.creator_key",
                           "org.matrix.msc3917.v1.invited_user_keys",
                           "org.matrix.msc3917.v1.signatures"}
              ELSE {})

\* Serialize of RoomCreateEventContent without skip_serializing_if on federate
RoomCreateEventContent_serialize_federateAlways(c, msc) ==
    [k \in CreateKeys(msc) |->
        CASE k = "creator" -> OptionalString(c.creator)
          [] k = "m.federate" -> JsonBool(c.federate)
          [] k = "room_version" -> JsonString(c.room_version)
          [] k = "predecessor" ->
                IF c.predecessor = None THEN Absent ELSE <<"object", c.predecessor>>
          [] k = "type" -> OptionalString(c.room_type)
          [] k = "org.matrix.msc3917.v1.room_root_key" -> OptionalString(c.room_root_key)
          [] k = "org.matrix.msc3917.v1.creator_key" -> OptionalString(c.creator_key)
          [] k = "org.matrix.msc3917.v1.invited_user_keys" ->
                IF c.invited_user_keys = None THEN Absent
                ELSE <<"object", c.invited_user_keys>>
          [] k = "org.matrix.msc3917.v1.signatures" ->
                IF c.signatures = None THEN Absent ELSE <<"object", c.signatures>>]

\* Serialize of RoomCreateEventContent skipping room_version when it is the
\* default
RoomCreateEventContent_serialize_skipsDefaultVersion(c, msc) ==
    [k \in CreateKeys(msc) |->
        CASE k = "creator" -> OptionalString(c.creator)
          [] k = "m.federate" -> IF c.federate = TRUE THEN Absent ELSE JsonBool(c.federate)
          [] k = "room_version" -> IF c.room_version = default_room_version_id THEN Absent
                ELSE JsonString(c.room_version)
          [] k = "predecessor" ->
                IF c.predecessor = None THEN Absent ELSE <<"object", c.predecessor>>
          [] k = "type" -> OptionalString(c.room_type)
          [] k = "org.matrix.msc3917.v1.room_root_key" -> OptionalString(c.room_root_key)
          [] k = "org.matrix.msc3917.v1.creator_key" -> OptionalString(c.creator_key)
          [] k = "org.matrix.msc3917.v1.invited_user_keys" ->
                IF c.invited_user_keys = None THEN Absent
                ELSE <<"object", c.invited_user_keys>>
          [] k = "org.matrix.msc3917.v1.signatures" ->
                IF c.signatures = None THEN Absent ELSE <<"object", c.signatures>>]

\* #[derive(Serialize)] of RoomCreateEventContent with its serde attributes
RoomCreateEventContent_serialize(c, msc) ==
    [k \in CreateKeys(msc) |->
        CASE k = "creator" -> OptionalString(c.creator)
          [] k = "m.federate" -> IF c.federate = TRUE THEN Absent ELSE JsonBool(c.federate)
          [] k = "room_version" -> JsonString(c.room_version)
          [] k = "predecessor" ->
                IF c.predecessor = None THEN Absent ELSE <<"object", c.predecessor>>
          [] k = "type" -> OptionalString(c.room_type)
          [] k = "org.matrix.msc3917.v1.room_root_key" -> OptionalString(c.room_root_key)
          [] k = "org.matrix.msc3917.v1.creator_key" -> OptionalString(c.creator_key)
          [] k = "org.matrix.msc3917.v1.invited_user_keys" ->
                IF c.invited_user_keys = None THEN Absent
                ELSE <<"object", c.invited_user_keys>>
          [] k = "org.matrix.msc3917.v1.signatures" ->
                IF c.signatures = None THEN Absent ELSE <<"object", c.signatures>>]

ServerNames == {"example.com", "example.org"}

ViaLists == UNION {[1..n -> ServerNames] : n \in 0..MaxVia}

\* SpaceChildEventContent; the msc3917 fields do not exist without the
\* feature and are carried as None
SpaceChildEventContent(msc) ==
    [via : ViaLists, order : {None, "uwu"}, suggested : BOOLEAN,
     sender_key : IF msc THEN {"rsk", None} ELSE {None},
     parent_event_id : IF msc THEN {"$parent", None} ELSE {None},
     room_root_key : IF msc THEN {"rrk", None} ELSE {None},
     signatures : IF msc THEN {"sigs", None} ELSE {None}]

\* SpaceChildEventContent::new
SpaceChildEventContent_new(via) ==
    [via |-> via, order |-> None, suggested |-> FALSE, sender_key |-> None,
     parent_event_id |-> None, room_root_key |-> None, signatures |-> None]

\* the keys the serialized m.space.child content can have
ChildKeys(msc) ==
    {"via", "order", "suggested"}
        \cup (IF msc THEN {"org.matrix.msc3917.v1.sender_key",
                           "org.matrix.msc3917.v1.parent_event_id",
                           "org.matrix.msc3917.v1.room_root_key",
                           "org.matrix.msc3917.v1.signatures"}
              ELSE {})

\* #[derive(Serialize)] of SpaceChildEventContent with its serde attributes
SpaceChildEventContent_serialize(c, msc) ==
    [k \in ChildKeys(msc) |->
        CASE k = "via" -> <<"array", c.via>>
          [] k = "order" -> OptionalString(c.order)
          [] k = "suggested" -> IF c.suggested = FALSE THEN Absent ELSE JsonBool(c.suggested)
          [] k = "org.matrix.msc3917.v1.sender_key" -> OptionalString(c.sender_key)
          [] k = "org.matrix.msc3917.v1.parent_event_id" -> OptionalString(c.parent_event_id)
          [] k = "org.matrix.msc3917.v1.room_root_key" -> OptionalString(c.room_root_key)
          [] k = "org.matrix.msc3917.v1.signatures" ->
                IF c.signatures = None THEN Absent ELSE <<"object", c.signatures>>]

\* the content values handed to Serialize, tagged with their event type
ContentValues(msc) ==
    [type : {"m.room.create"}, content : RoomCreateEventContent(msc)]
        \cup [type : {"m.space.child"}, content : SpaceChildEventContent(msc)]

NoValue == [type |-> "none", content |-> <<>>]

NoWire == [done |-> FALSE, fields |-> <<>>]

NotParsed == [done |-> FALSE, ok |-> FALSE, content |-> <<>>]

ParseErr == [done |-> TRUE, ok |-> FALSE, content |-> <<>>]

ParseOk(c) == [done |-> TRUE, ok |-> TRUE, content |-> c]

(***************************************************************************)
(* Deserialize of RoomCreateEventContent and SpaceChildEventContent        *)
(***************************************************************************)
\* the value under key k; Absent when the object does not have the key
Get(o, k) == IF k \in DOMAIN o THEN o[k] ELSE Absent

\* an Option field: a missing key and null both give None
OptionOfJson(val) == IF Tag(val) \in {"absent", "null"} THEN None ELSE val[2]

BoolOfJson(val) == val[2] = "true"

\* Deserialize of RoomCreateEventContent with bool::default for federate
RoomCreateEventContent_deserialize_federateDefaultFalse(o, msc) ==
    IF \/ Tag(Get(o, "creator")) \notin {"absent", "null", "string"}
       \/ Tag(Get(o, "m.federate")) \notin {"absent", "bool"}
       \/ Tag(Get(o, "room_version")) \notin {"absent", "string"}
       \/ Tag(Get(o, "predecessor")) \notin {"absent", "null", "object"}
       \/ Tag(Get(o, "type")) \notin {"absent", "null", "string"}
    THEN ParseErr
    ELSE ParseOk(
        [creator |-> OptionOfJson(Get(o, "creator")),
         federate |-> IF Get(o, "m.federate") = Absent THEN FALSE
                      ELSE BoolOfJson(Get(o, "m.federate")),
         room_version |-> IF Get(o, "room_version") = Absent
                          THEN default_room_version_id
                          ELSE Get(o, "room_version")[2],
         predecessor |-> OptionOfJson(Get(o, "predecessor")),
         room_type |-> OptionOfJson(Get(o, "type")),
         room_root_key |->
            IF msc THEN OptionOfJson(Get(o, "org.matrix.msc3917.v1.room_root_key"))
            ELSE None,
         creator_key |->
            IF msc THEN OptionOfJson(Get(o, "org.matrix.msc3917.v1.creator_key"))
            ELSE None,
         invited_user_keys |->
            IF msc THEN OptionOfJson(Get(o, "org.matrix.msc3917.v1.invited_user_keys"))
            ELSE None,
         signatures |->
            IF msc THEN OptionOfJson(Get(o, "org.matrix.msc3917.v1.signatures"))
            ELSE None])

\* #[derive(Deserialize)] of RoomCreateEventContent with its serde attributes
RoomCreateEventContent_deserialize(o, msc) ==
    IF \/ Tag(Get(o, "creator")) \notin {"absent", "null", "string"}
       \/ Tag(Get(o, "m.federate")) \notin {"absent", "bool"}
       \/ Tag(Get(o, "room_version")) \notin {"absent", "string"}
       \/ Tag(Get(o, "predecessor")) \notin {"absent", "null", "object"}
       \/ Tag(Get(o, "type")) \notin {"absent", "null", "string"}
    THEN ParseErr
    ELSE ParseOk(
        [creator |-> OptionOfJson(Get(o, "creator")),
         federate |-> IF Get(o, "m.federate") = Absent THEN TRUE
                      ELSE BoolOfJson(Get(o, "m.federate")),
         room_version |-> IF Get(o, "room_version") = Absent
                          THEN default_room_version_id
                          ELSE Get(o, "room_version")[2],
         predecessor |-> OptionOfJson(Get(o, "predecessor")),
         room_type |-> OptionOfJson(Get(o, "type")),
         room_root_key |->
            IF msc THEN OptionOfJson(Get(o, "org.matrix.msc3917.v1.room_root_key"))
            ELSE None,
         creator_key |->
            IF msc THEN OptionOfJson(Get(o, "org.matrix.msc3917.v1.creator_key"))
            ELSE None,
         invited_user_keys |->
            IF msc THEN OptionOfJson(Get(o, "org.matrix.msc3917.v1.invited_user_keys"))
            ELSE None,
         signatures |->
            IF msc THEN OptionOfJson(Get(o, "org.matrix.msc3917.v1.signatures"))
            ELSE None])

\* Deserialize of SpaceChildEventContent with #[serde(default)] on via
SpaceChildEventContent_deserialize_viaDefault(o, msc) ==
    IF \/ Tag(Get(o, "via")) \notin {"absent", "array"}
       \/ Tag(Get(o, "order")) \notin {"absent", "null", "string"}
       \/ Tag(Get(o, "suggested")) \notin {"absent", "bool"}
    THEN ParseErr
    ELSE ParseOk(
        [via |-> IF Get(o, "via") = Absent THEN <<>> ELSE Get(o, "via")[2],
         order |-> OptionOfJson(Get(o, "order")),
         suggested |-> IF Get(o, "suggested") = Absent THEN FALSE
                       ELSE BoolOfJson(Get(o, "suggested")),
         sender_key |->
            IF msc THEN OptionOfJson(Get(o, "org.matrix.msc3917.v1.sender_key"))
            ELSE None,
         parent_event_id |->
            IF msc THEN OptionOfJson(Get(o, "org.matrix.msc3917.v1.parent_event_id"))
            ELSE None,
         room_root_key |->
            IF msc THEN OptionOfJson(Get(o, "org.matrix.msc3917.v1.room_root_key"))
            ELSE None,
         signatures |->
            IF msc THEN OptionOfJson(Get(o, "org.matrix.msc3917.v1.signatures"))
            ELSE None])

\* #[derive(Deserialize)] of SpaceChildEventContent with its serde attributes
SpaceChildEventContent_deserialize(o, msc) ==
    IF \/ Tag(Get(o, "via")) # "array"
       \/ Tag(Get(o, "order")) \notin {"absent", "null", "string"}
       \/ Tag(Get(o, "suggested")) \notin {"absent", "bool"}
    THEN ParseErr
    ELSE ParseOk(
        [via |-> Get(o, "via")[2],
         order |-> OptionOfJson(Get(o, "order")),
         suggested |-> IF Get(o, "suggested") = Absent THEN FALSE
                       ELSE BoolOfJson(Get(o, "suggested")),
         sender_key |->
            IF msc THEN OptionOfJson(Get(o, "org.matrix.msc3917.v1.sender_key"))
            ELSE None,
         parent_event_id |->
            IF msc THEN OptionOfJson(Get(o, "org.matrix.msc3917.v1.parent_event_id"))
            ELSE None,
         room_root_key |->
            IF msc THEN OptionOfJson(Get(o, "org.matrix.msc3917.v1.room_root_key"))
            ELSE None,
         signatures |->
            IF msc THEN OptionOfJson(Get(o, "org.matrix.msc3917.v1.signatures"))
            ELSE None])

\* values an object handed to Deserialize can hold under a key
WireDomain(k) ==
    CASE k = "creator" -> {Absent, JsonNull} \cup {JsonString(u) : u \in UserIds}
      [] k = "m.federate" -> {Absent, JsonBool(TRUE), JsonBool(FALSE), JsonString("yes")}
      [] k = "room_version" -> {Absent, JsonString(V1), JsonString(V11), JsonNumber}
      [] k = "predecessor" -> {Absent} \cup {<<"object", r>> : r \in PreviousRoom}
      [] k = "type" -> {Absent} \cup {JsonString(t) : t \in RoomType}
      [] k = "via" -> {Absent, JsonString("example.com")}
                          \cup {<<"array", v>> : v \in ViaLists}
      [] k = "order" -> {Absent, JsonNull, JsonString("uwu")}
      [] k = "suggested" -> {Absent, JsonBool(TRUE), JsonBool(FALSE), JsonNull}
      [] k = "org.matrix.msc3917.v1.room_root_key" -> {Absent, JsonString("rrk")}
      [] k = "org.matrix.msc3917.v1.creator_key" -> {Absent, JsonString("msk")}
      [] k = "org.matrix.msc3917.v1.sender_key" -> {Absent, JsonString("rsk")}
      [] k = "org.matrix.msc3917.v1.parent_event_id" -> {Absent, JsonString("$parent")}
      [] k = "org.matrix.msc3917.v1.invited_user_keys" -> {Absent, <<"object", "msks">>}
      [] k = "org.matrix.msc3917.v1.signatures" -> {Absent, <<"object", "sigs">>}

\* the objects handed to Deserialize as m.room.create content
CreateObjects(msc) ==
    {[k \in CreateKeys(msc) |->
        CASE k = "creator" -> t[1]
          [] k = "m.federate" -> t[2]
          [] k = "room_version" -> t[3]
          [] k = "predecessor" -> t[4]
          [] k = "type" -> t[5]
          [] k = "org.matrix.msc3917.v1.room_root_key" -> t[6]
          [] k = "org.matrix.msc3917.v1.creator_key" -> t[7]
          [] k = "org.matrix.msc3917.v1.invited_user_keys" -> t[8]
          [] k = "org.matrix.msc3917.v1.signatures" -> t[9]] :
      t \in WireDomain("creator")
            \X WireDomain("m.federate")
            \X WireDomain("room_version")
            \X WireDomain("predecessor")
            \X WireDomain("type")
            \X (IF msc THEN WireDomain("org.matrix.msc3917.v1.room_root_key") ELSE {Absent})
            \X (IF msc THEN WireDomain("org.matrix.msc3917.v1.creator_key") ELSE {Absent})
            \X (IF msc THEN WireDomain("org.matrix.msc3917.v1.invited_user_keys") ELSE {Absent})
            \X (IF msc THEN WireDomain("org.matrix.msc3917.v1.signatures") ELSE {Absent})}

\* the objects handed to Deserialize as m.space.child content
ChildObjects(msc) ==
    {[k \in ChildKeys(msc) |->
        CASE k = "via" -> t[1]
          [] k = "order" -> t[2]
          [] k = "suggested" -> t[3]
          [] k = "org.matrix.msc3917.v1.sender_key" -> t[4]
          [] k = "org.matrix.msc3917.v1.parent_event_id" -> t[5]
          [] k = "org.matrix.msc3917.v1.room_root_key" -> t[6]
          [] k = "org.matrix.msc3917.v1.signatures" -> t[7]] :
      t \in WireDomain("via")
            \X WireDomain("order")
            \X WireDomain("suggested")
            \X (IF msc THEN WireDomain("org.matrix.msc3917.v1.sender_key") ELSE {Absent})
            \X (IF msc THEN WireDomain("org.matrix.msc3917.v1.parent_event_id") ELSE {Absent})
            \X (IF msc THEN WireDomain("org.matrix.msc3917.v1.room_root_key") ELSE {Absent})
            \X (IF msc THEN WireDomain("org.matrix.msc3917.v1.signatures") ELSE {Absent})}

(***************************************************************************)
(* Unsigned data: MessageLikeUnsigned, StateUnsigned, RedactedUnsigned     *)
(***************************************************************************)
\* the kinds of bundled relations
RelationKinds == {"m.replace", "m.thread"}

\* BundledMessageLikeRelations::default / BundledStateRelations::default
Relations_default == {}

\* BundledMessageLikeRelations::is_empty / BundledStateRelations::is_empty
Relations_is_empty(r) == r = {}

Ages == {"1234"}

TransactionIds == {"txn"}

PrevContents == {"prev"}

\* MessageLikeUnsigned::new
MessageLikeUnsigned_new ==
    [age |-> None, transaction_id |-> None, relations |-> Relations_default]

\* StateUnsigned::new
StateUnsigned_new ==
    [age |-> None, transaction_id |-> None, prev_content |-> None,
     relations |-> Relations_default]

\* is_empty of MessageLikeUnsigned without the relations test
MessageLikeUnsigned_is_empty_ignoresRelations(u) ==
    u.age = None /\ u.transaction_id = None

\* <MessageLikeUnsigned as CanBeEmpty>::is_empty
MessageLikeUnsigned_is_empty(u) ==
    u.age = None /\ u.transaction_id = None /\ Relations_is_empty(u.relations)

\* <StateUnsigned as CanBeEmpty>::is_empty
StateUnsigned_is_empty(u) ==
    /\ u.age = None
    /\ u.transaction_id = None
    /\ u.prev_content = None
    /\ Relations_is_empty(u.relations)

NoRaw == [kind |-> "none", fields |-> <<>>]

NoUnsigned == [kind |-> "none", ok |-> FALSE, data |-> <<>>]

UnsignedErr(kind) == [kind |-> kind, ok |-> FALSE, data |-> <<>>]

UnsignedOk(kind, d) == [kind |-> kind, ok |-> TRUE, data |-> d]

\* the keys met in an `unsigned` object; the last one belongs to no struct
UnsignedKeys ==
    {"age", "transaction_id", "prev_content", "m.relations", "redacted_because",
     "org.example.unknown"}

\* relations: m.relations with #[serde(default)]
RelationsOfJson(val) == IF val = Absent THEN Relations_default ELSE val[2]

\* #[derive(Deserialize)] of MessageLikeUnsigned
MessageLikeUnsigned_deserialize(o) ==
    IF \/ Tag(Get(o, "age")) \notin {"absent", "null", "number"}
       \/ Tag(Get(o, "transaction_id")) \notin {"absent", "null", "string"}
       \/ Tag(Get(o, "m.relations")) \notin {"absent", "object"}
    THEN UnsignedErr("MessageLike")
    ELSE UnsignedOk("MessageLike",
            [age |-> OptionOfJson(Get(o, "age")),
             transaction_id |-> OptionOfJson(Get(o, "transaction_id")),
             relations |-> RelationsOfJson(Get(o, "m.relations"))])

\* #[derive(Deserialize)] of StateUnsigned
StateUnsigned_deserialize(o) ==
    IF \/ Tag(Get(o, "age")) \notin {"absent", "null", "number"}
       \/ Tag(Get(o, "transaction_id")) \notin {"absent", "null", "string"}
       \/ Tag(Get(o, "prev_content")) \notin {"absent", "null", "object"}
       \/ Tag(Get(o, "m.relations")) \notin {"absent", "object"}
    THEN UnsignedErr("State")
    ELSE UnsignedOk("State",
            [age |-> OptionOfJson(Get(o, "age")),
             transaction_id |-> OptionOfJson(Get(o, "transaction_id")),
             prev_content |-> OptionOfJson(Get(o, "prev_content")),
             relations |-> RelationsOfJson(Get(o, "m.relations"))])

\* the keys of the event under redacted_because
RedactionEventKeys == {"content", "event_id", "sender", "origin_server_ts", "unsigned"}

\* #[derive(Deserialize)] of UnsignedRoomRedactionEvent
UnsignedRoomRedactionEvent_deserialize(e) ==
    IF \/ Tag(Get(e, "content")) # "object"
       \/ Tag(Get(e, "event_id")) # "string"
       \/ Tag(Get(e, "sender")) # "string"
       \/ Tag(Get(e, "origin_server_ts")) # "number"
       \/ Tag(Get(e, "unsigned")) \notin {"absent", "object"}
       \/ /\ Tag(Get(e, "unsigned")) = "object"
          /\ ~MessageLikeUnsigned_deserialize(Get(e, "unsigned")[2]).ok
    THEN UnsignedErr("RedactionEvent")
    ELSE UnsignedOk("RedactionEvent",
            [content |-> Get(e, "content")[2],
             event_id |-> Get(e, "event_id")[2],
             sender |-> Get(e, "sender")[2],
             origin_server_ts |-> Get(e, "origin_server_ts")[2],
             unsigned |-> IF Get(e, "unsigned") = Absent THEN MessageLikeUnsigned_new
                          ELSE MessageLikeUnsigned_deserialize(Get(e, "unsigned")[2]).data])

\* Deserialize of RedactedUnsigned with an optional redacted_because
RedactedUnsigned_deserialize_causeOptional(o) ==
    LET ev == Get(o, "redacted_because") IN
    IF \/ Tag(ev) \notin {"absent", "object"}
       \/ /\ Tag(ev) = "object"
          /\ ~UnsignedRoomRedactionEvent_deserialize(ev[2]).ok
    THEN UnsignedErr("Redacted")
    ELSE UnsignedOk("Redacted",
            [redacted_because |->
                IF ev = Absent THEN None
                ELSE UnsignedRoomRedactionEvent_deserialize(ev[2]).data])

\* #[derive(Deserialize)] of RedactedUnsigned
RedactedUnsigned_deserialize(o) ==
    LET ev == Get(o, "redacted_because") IN
    IF \/ Tag(ev) # "object"
       \/ ~UnsignedRoomRedactionEvent_deserialize(ev[2]).ok
    THEN UnsignedErr("Redacted")
    ELSE UnsignedOk("Redacted",
            [redacted_because |-> UnsignedRoomRedactionEvent_deserialize(ev[2]).data])

\* the `unsigned` objects found inside a redaction event
InnerUnsignedObjects ==
    {[k \in UnsignedKeys |-> IF k = "age" THEN a ELSE Absent] :
        a \in {Absent, <<"number", "1234">>}}

\* the events met under redacted_because
RedactionEventObjects ==
    {[k \in RedactionEventKeys |->
        CASE k = "content" -> <<"object", "redaction">>
          [] k = "event_id" -> t[1]
          [] k = "sender" -> JsonString("@carl:example.com")
          [] k = "origin_server_ts" -> <<"number", "1">>
          [] k = "unsigned" -> t[2]] :
      t \in {Absent, JsonString("$redaction")}
              \X ({Absent} \cup {<<"object", u>> : u \in InnerUnsignedObjects})}

\* the objects met under an event's `unsigned` key
UnsignedObjects ==
    {[k \in UnsignedKeys |->
        CASE k = "age" -> t[1]
          [] k = "transaction_id" -> t[2]
          [] k = "prev_content" -> t[3]
          [] k = "m.relations" -> t[4]
          [] k = "redacted_because" -> t[5]
          [] k = "org.example.unknown" -> t[6]] :
      t \in ({Absent, JsonString("soon")} \cup {<<"number", a>> : a \in Ages})
              \X ({Absent} \cup {JsonString(x) : x \in TransactionIds})
              \X ({Absent} \cup {<<"object", c>> : c \in PrevContents})
              \X ({Absent} \cup {<<"object", r>> : r \in SUBSET RelationKinds})
              \X ({Absent} \cup {<<"object", e>> : e \in RedactionEventObjects})
              \X {Absent, JsonString("x")}}

(***************************************************************************)
(* Room-create component                                                   *)
(***************************************************************************)
MessageIdle ==
    json = NoJson /\ decoded = NotDecoded /\ encoded = NotEncoded /\ roomMessage = NoRoomMessage

AliasIdle == dehelper = <<>> /\ resolved = <<>> /\ passes = 0

IdentIdle == candidate = NoCandidate /\ outcome = NoOutcome

CodecIdle == value = NoValue /\ wire = NoWire /\ parsed = NotParsed

UnsignedIdle == raw = NoRaw /\ unsignedData = NoUnsigned

InitCreate ==
    /\ unstable_msc3917 \in BOOLEAN
    /\ content \in RoomCreateEventContent(unstable_msc3917)
    /\ input = None
    /\ version = NoCall
    /\ prevVersion = NoCall
    /\ retained = {}
    /\ prevRetained = {}
    /\ calls = 0
    /\ MessageIdle
    /\ AliasIdle
    /\ IdentIdle
    /\ CodecIdle
    /\ UnsignedIdle

Fresh(c) ==
    /\ content' = c
    /\ input' = None
    /\ version' = NoCall
    /\ prevVersion' = NoCall
    /\ retained' = {}
    /\ prevRetained' = {}
    /\ calls' = 0
    /\ UNCHANGED <<unstable_msc3917, unsignedVars, messageVars, aliasVars, identVars, codecVars>>

NewV1 == \E creator \in UserIds : Fresh(new_v1(creator))

NewV11 == Fresh(new_v11)

Redact ==
    /\ calls < MaxCalls
    /\ \E v \in RoomVersionId :
        /\ content' = redact(content, v)
        /\ input' = content
        /\ version' = v
        /\ prevVersion' = version
        /\ retained' = RetainedSet(content, v, unstable_msc3917)
        /\ prevRetained' = retained
        /\ calls' = calls + 1
    /\ UNCHANGED <<unstable_msc3917, unsignedVars, messageVars, aliasVars, identVars, codecVars>>

NextCreate == NewV1 \/ NewV11 \/ Redact

SpecCreate == InitCreate /\ [][NextCreate]_vars

(***************************************************************************)
(* Message component                                                       *)
(***************************************************************************)
CreateIdle ==
    /\ content = new_v11
    /\ input = None
    /\ version = NoCall
    /\ prevVersion = NoCall
    /\ retained = {}
    /\ prevRetained = {}
    /\ calls = 0

InitMessage ==
    /\ unstable_msc3917 \in BOOLEAN
    /\ CreateIdle
    /\ MessageIdle
    /\ AliasIdle
    /\ IdentIdle
    /\ CodecIdle
    /\ UnsignedIdle

DeserializeMessageType ==
    /\ \E j \in RawJsonValue :
        /\ json' = j
        /\ decoded' = MessageType_deserialize(j)
    /\ encoded' = NotEncoded
    /\ roomMessage' = NoRoomMessage
    /\ UNCHANGED <<unstable_msc3917, unsignedVars, createVars, aliasVars, identVars, codecVars>>

SerializeMessageType ==
    /\ decoded.ok
    /\ ~encoded.done
    /\ encoded' = [done |-> TRUE, fields |-> MessageType_serialize(decoded)]
    /\ UNCHANGED <<unstable_msc3917, unsignedVars, createVars, json, decoded, roomMessage,
                   aliasVars, identVars, codecVars>>

DeserializeRoomMessage ==
    /\ \E j \in RawJsonValue : roomMessage' = RoomMessageEventContent_deserialize(j)
    /\ json' = NoJson
    /\ decoded' = NotDecoded
    /\ encoded' = NotEncoded
    /\ UNCHANGED <<unstable_msc3917, unsignedVars, createVars, aliasVars, identVars, codecVars>>

NextMessage == DeserializeMessageType \/ SerializeMessageType \/ DeserializeRoomMessage

SpecMessage == InitMessage /\ [][NextMessage]_vars

(***************************************************************************)
(* Alias component                                                         *)
(***************************************************************************)
InitAlias ==
    /\ unstable_msc3917 = FALSE
    /\ CreateIdle
    /\ MessageIdle
    /\ IdentIdle
    /\ CodecIdle
    /\ UnsignedIdle
    /\ dehelper \in FileMessageEventContentDeHelper \cup ImageMessageEventContentDeHelper
    /\ resolved = <<>>
    /\ passes = 0

FromFileHelper ==
    /\ passes = 0
    /\ dehelper.shape = "file"
    /\ resolved' = FileMessageEventContent_from(dehelper)
    /\ passes' = 1
    /\ UNCHANGED <<unstable_msc3917, unsignedVars, createVars, messageVars, identVars, codecVars, dehelper>>

FromImageHelper ==
    /\ passes = 0
    /\ dehelper.shape = "image"
    /\ resolved' = ImageMessageEventContent_from(dehelper)
    /\ passes' = 1
    /\ UNCHANGED <<unstable_msc3917, unsignedVars, createVars, messageVars, identVars, codecVars, dehelper>>

\* the canonical content is read back under its stable keys and resolved again
FromCanonical ==
    /\ passes >= 1
    /\ passes < MaxPasses
    /\ dehelper' = CanonicalHelper(resolved)
    /\ resolved' = IF resolved.shape = "file"
                   THEN FileMessageEventContent_from(CanonicalHelper(resolved))
                   ELSE ImageMessageEventContent_from(CanonicalHelper(resolved))
    /\ passes' = passes + 1
    /\ UNCHANGED <<unstable_msc3917, unsignedVars, createVars, messageVars, identVars, codecVars>>

NextAlias == FromFileHelper \/ FromImageHelper \/ FromCanonical

SpecAlias == InitAlias /\ [][NextAlias]_vars

(***************************************************************************)
(* Identifier component                                                    *)
(***************************************************************************)
InitIdent ==
    /\ unstable_msc3917 \in BOOLEAN
    /\ CreateIdle
    /\ MessageIdle
    /\ AliasIdle
    /\ IdentIdle
    /\ CodecIdle
    /\ UnsignedIdle

Validate ==
    /\ \E s \in Candidates :
        /\ candidate' = s
        /\ outcome' = [room_id |-> room_id_validate(s, unstable_msc3917),
                       alias |-> room_alias_id_validate(s),
                       union |-> room_id_or_alias_id_validate(s, unstable_msc3917)]
    /\ UNCHANGED <<unstable_msc3917, unsignedVars, createVars, messageVars, aliasVars, codecVars>>

NextIdent == Validate

SpecIdent == InitIdent /\ [][NextIdent]_vars

(***************************************************************************)
(* PossiblyRedactedRoomTombstoneEventContent                               *)
(***************************************************************************)
TombstoneKeys == {"body", "replacement_room"}

\* StaticEventContent::TYPE
TombstoneType == "m.room.tombstone"

\* strings met as replacement_room: a room ID and a string without the sigil
RoomIdStrings == {"!a:a", "a:a"}

\* the bytes of such a string, as the identifier validators take them
IdCandidate(str) ==
    IF str = "!a:a" THEN [chars |-> <<"!", "a", ":", "a">>, long |-> FALSE]
    ELSE [chars |-> <<"a", ":", "a">>, long |-> FALSE]

\* Deserialize with the body: String of RoomTombstoneEventContent
PossiblyRedactedRoomTombstoneEventContent_deserialize_bodyRequired(o, msc) ==
    IF \/ Tag(Get(o, "body")) \notin {"absent", "null", "string"}
       \/ Tag(Get(o, "replacement_room")) \notin {"absent", "null", "string"}
       \/ /\ Tag(Get(o, "replacement_room")) = "string"
          /\ room_id_validate(IdCandidate(Get(o, "replacement_room")[2]), msc) # "Ok"
       \/ Get(o, "body") = Absent
    THEN ParseErr
    ELSE ParseOk([body |-> OptionOfJson(Get(o, "body")),
                  replacement_room |-> OptionOfJson(Get(o, "replacement_room"))])

\* #[derive(Deserialize)] of PossiblyRedactedRoomTombstoneEventContent
PossiblyRedactedRoomTombstoneEventContent_deserialize(o, msc) ==
    IF \/ Tag(Get(o, "body")) \notin {"absent", "null", "string"}
       \/ Tag(Get(o, "replacement_room")) \notin {"absent", "null", "string"}
       \/ /\ Tag(Get(o, "replacement_room")) = "string"
          /\ room_id_validate(IdCandidate(Get(o, "replacement_room")[2]), msc) # "Ok"
    THEN ParseErr
    ELSE ParseOk([body |-> OptionOfJson(Get(o, "body")),
                  replacement_room |-> OptionOfJson(Get(o, "replacement_room"))])

\* EventContent::event_type
PossiblyRedactedRoomTombstoneEventContent_event_type(c) == TombstoneType

\* the objects handed to Deserialize as possibly redacted tombstone content
TombstoneObjects ==
    {[k \in TombstoneKeys |-> IF k = "body" THEN t[1] ELSE t[2]] :
        t \in {Absent, JsonNull, JsonNumber, JsonString("upgraded")}
                \X ({Absent, JsonNull, JsonNumber}
                        \cup {JsonString(r) : r \in RoomIdStrings})}

(***************************************************************************)
(* Codec component                                                         *)
(***************************************************************************)
InitCodec ==
    /\ unstable_msc3917 \in BOOLEAN
    /\ CreateIdle
    /\ MessageIdle
    /\ AliasIdle
    /\ IdentIdle
    /\ value \in ContentValues(unstable_msc3917) \cup {NoValue}
    /\ wire = NoWire
    /\ parsed = NotParsed
    /\ UnsignedIdle

NewSpaceChild ==
    /\ \E via \in ViaLists :
        value' = [type |-> "m.space.child", content |-> SpaceChildEventContent_new(via)]
    /\ wire' = NoWire
    /\ parsed' = NotParsed
    /\ UNCHANGED <<unstable_msc3917, unsignedVars, createVars, messageVars, aliasVars, identVars>>

SerializeCreate ==
    /\ value.type = "m.room.create"
    /\ ~wire.done
    /\ wire' = [done |-> TRUE,
                fields |-> RoomCreateEventContent_serialize(value.content, unstable_msc3917)]
    /\ UNCHANGED <<unstable_msc3917, unsignedVars, createVars, messageVars, aliasVars, identVars, value,
                   parsed>>

SerializeChild ==
    /\ value.type = "m.space.child"
    /\ ~wire.done
    /\ wire' = [done |-> TRUE,
                fields |-> SpaceChildEventContent_serialize(value.content, unstable_msc3917)]
    /\ UNCHANGED <<unstable_msc3917, unsignedVars, createVars, messageVars, aliasVars, identVars, value,
                   parsed>>

\* an m.room.create content object arrives from elsewhere
ReceiveCreate ==
    /\ value = NoValue
    /\ ~wire.done
    /\ \E o \in CreateObjects(unstable_msc3917) : wire' = [done |-> TRUE, fields |-> o]
    /\ UNCHANGED <<unstable_msc3917, unsignedVars, createVars, messageVars, aliasVars, identVars, value,
                   parsed>>

\* an m.space.child content object arrives from elsewhere
ReceiveChild ==
    /\ value = NoValue
    /\ ~wire.done
    /\ \E o \in ChildObjects(unstable_msc3917) : wire' = [done |-> TRUE, fields |-> o]
    /\ UNCHANGED <<unstable_msc3917, unsignedVars, createVars, messageVars, aliasVars, identVars, value,
                   parsed>>

DeserializeCreate ==
    /\ wire.done
    /\ ~parsed.done
    /\ DOMAIN wire.fields = CreateKeys(unstable_msc3917)
    /\ parsed' = RoomCreateEventContent_deserialize(wire.fields, unstable_msc3917)
    /\ UNCHANGED <<unstable_msc3917, unsignedVars, createVars, messageVars, aliasVars, identVars, value,
                   wire>>

DeserializeChild ==
    /\ wire.done
    /\ ~parsed.done
    /\ DOMAIN wire.fields = ChildKeys(unstable_msc3917)
    /\ parsed' = SpaceChildEventContent_deserialize(wire.fields, unstable_msc3917)
    /\ UNCHANGED <<unstable_msc3917, unsignedVars, createVars, messageVars, aliasVars, identVars, value,
                   wire>>

\* a possibly redacted m.room.tombstone content object arrives from elsewhere
ReceiveTombstone ==
    /\ value = NoValue
    /\ ~wire.done
    /\ \E o \in TombstoneObjects : wire' = [done |-> TRUE, fields |-> o]
    /\ UNCHANGED <<unstable_msc3917, unsignedVars, createVars, messageVars, aliasVars, identVars, value,
                   parsed>>

DeserializeTombstone ==
    /\ wire.done
    /\ ~parsed.done
    /\ DOMAIN wire.fields = TombstoneKeys
    /\ parsed' = PossiblyRedactedRoomTombstoneEventContent_deserialize(
                    wire.fields, unstable_msc3917)
    /\ UNCHANGED <<unstable_msc3917, unsignedVars, createVars, messageVars, aliasVars, identVars, value,
                   wire>>

NextCodec ==
    \/ NewSpaceChild
    \/ SerializeCreate
    \/ SerializeChild
    \/ ReceiveCreate
    \/ ReceiveChild
    \/ DeserializeCreate
    \/ DeserializeChild
    \/ ReceiveTombstone
    \/ DeserializeTombstone

SpecCodec == InitCodec /\ [][NextCodec]_vars

(***************************************************************************)
(* Unsigned component                                                      *)
(***************************************************************************)
InitUnsigned ==
    /\ unstable_msc3917 = FALSE
    /\ CreateIdle
    /\ MessageIdle
    /\ AliasIdle
    /\ IdentIdle
    /\ CodecIdle
    /\ raw = NoRaw
    /\ unsignedData = NoUnsigned

\* MessageLikeUnsigned::new(), also reached through Default::default()
NewMessageLikeUnsigned ==
    /\ raw' = NoRaw
    /\ unsignedData' = UnsignedOk("MessageLike", MessageLikeUnsigned_new)
    /\ UNCHANGED <<unstable_msc3917, createVars, messageVars, aliasVars, identVars, codecVars>>

\* StateUnsigned::new(), also reached through Default::default()
NewStateUnsigned ==
    /\ raw' = NoRaw
    /\ unsignedData' = UnsignedOk("State", StateUnsigned_new)
    /\ UNCHANGED <<unstable_msc3917, createVars, messageVars, aliasVars, identVars, codecVars>>

\* an assignment to one of the public fields; the value no longer reflects
\* the object it was decoded from
SetUnsignedField ==
    /\ unsignedData.ok
    /\ unsignedData.kind \in {"MessageLike", "State"}
    /\ \E f \in DOMAIN unsignedData.data :
        \E v \in CASE f = "age" -> Ages \cup {None}
                   [] f = "transaction_id" -> TransactionIds \cup {None}
                   [] f = "prev_content" -> PrevContents \cup {None}
                   [] f = "relations" -> SUBSET RelationKinds :
            unsignedData' = [unsignedData EXCEPT !.data[f] = v]
    /\ raw' = NoRaw
    /\ UNCHANGED <<unstable_msc3917, createVars, messageVars, aliasVars, identVars, codecVars>>

\* an event arrives with an `unsigned` object
ReceiveUnsigned ==
    /\ raw.kind = "none"
    /\ \E o \in UnsignedObjects : raw' = [kind |-> "object", fields |-> o]
    /\ unsignedData' = NoUnsigned
    /\ UNCHANGED <<unstable_msc3917, createVars, messageVars, aliasVars, identVars, codecVars>>

DeserializeMessageLikeUnsigned ==
    /\ raw.kind = "object"
    /\ unsignedData.kind = "none"
    /\ unsignedData' = MessageLikeUnsigned_deserialize(raw.fields)
    /\ UNCHANGED <<unstable_msc3917, createVars, messageVars, aliasVars, identVars, codecVars,
                   raw>>

DeserializeStateUnsigned ==
    /\ raw.kind = "object"
    /\ unsignedData.kind = "none"
    /\ unsignedData' = StateUnsigned_deserialize(raw.fields)
    /\ UNCHANGED <<unstable_msc3917, createVars, messageVars, aliasVars, identVars, codecVars,
                   raw>>

DeserializeRedactedUnsigned ==
    /\ raw.kind = "object"
    /\ unsignedData.kind = "none"
    /\ unsignedData' = RedactedUnsigned_deserialize(raw.fields)
    /\ UNCHANGED <<unstable_msc3917, createVars, messageVars, aliasVars, identVars, codecVars,
                   raw>>

NextUnsigned ==
    \/ NewMessageLikeUnsigned
    \/ NewStateUnsigned
    \/ SetUnsignedField
    \/ ReceiveUnsigned
    \/ DeserializeMessageLikeUnsigned
    \/ DeserializeStateUnsigned
    \/ DeserializeRedactedUnsigned

SpecUnsigned == InitUnsigned /\ [][NextUnsigned]_vars

(***************************************************************************)
(* Properties of the room-create redaction                                 *)
(***************************************************************************)
\* a redact() call has produced `content` from `input` under `version`
Redacted == calls >= 1

\* room versions 11 and later
FromV11 == {V11, "12"}

\* C1: for every content and every room version 11 or later, the result of
\* redact has no creator.
C1_NoCreatorFromV11 ==
    (Redacted /\ version \in FromV11) => content.creator = None

\* C2: for every version in V1..V10, redact keeps creator exactly as in the
\* input and sets every other field to a value independent of the input:
\* federate true, room_version V1, predecessor, room_type and all msc3917
\* fields absent.
C2_LegacyKeepsOnlyCreator ==
    (Redacted /\ version \in LegacyVersions) =>
        /\ content.creator = input.creator
        /\ content.federate = TRUE
        /\ content.room_version = V1
        /\ content.predecessor = None
        /\ content.room_type = None
        /\ \A f \in Msc3917Fields : content[f] = None

C2_Witness ==
    /\ Redacted
    /\ version \in LegacyVersions
    /\ input.creator # None
    /\ input.federate = FALSE
    /\ input.room_version = V4
    /\ input.predecessor # None
    /\ input.room_type # None
    /\ input.room_root_key # None
    /\ content.creator = input.creator

\* C3 (as stated): for every version in V1..V10, redact equals new_v11() with
\* only the creator field copied over from the input.
C3_LegacyEqualsNewV11WithCreator ==
    (Redacted /\ version \in LegacyVersions) =>
        content = [new_v11 EXCEPT !.creator = input.creator]

\* C3 (amended): for every version in V1..V10, redact equals new_v11() with
\* creator copied over from the input and room_version set to V1; no field
\* other than creator and room_version differs from new_v11().
C3_LegacyEqualsNewV11WithCreatorAndV1 ==
    (Redacted /\ version \in LegacyVersions) =>
        /\ content = [new_v11 EXCEPT !.creator = input.creator,
                                     !.room_version = V1]
        /\ {f \in DOMAIN content : content[f] # new_v11[f]}
               \subseteq {"creator", "room_version"}

C3_Witness ==
    /\ Redacted
    /\ version = V10
    /\ input.creator # None
    /\ input.room_type # None
    /\ {f \in DOMAIN content : content[f] # new_v11[f]} = {"creator", "room_version"}

C5_Idempotent ==
    (calls >= 2 /\ version = prevVersion) => content = input

C5_Witness ==
    /\ calls >= 2
    /\ version = prevVersion
    /\ version \in LegacyVersions
    /\ content.creator # None
    /\ content = input

C7_RetentionDependsOnVersionOnly ==
    /\ Redacted => retained = RetainedSet(new_v11, version, unstable_msc3917)
    /\ (calls >= 2 /\ version = prevVersion) => retained = prevRetained

C7_Witness ==
    /\ calls >= 2
    /\ version = prevVersion
    /\ version \in LegacyVersions
    /\ input.creator # None
    /\ retained = {"creator"}

(***************************************************************************)
(* Properties of the message decoder                                       *)
(***************************************************************************)
\* MessageType::deserialize has run on `json` and produced `decoded`
Decoded == json.kind # "none"

\* the msgtype key of the payload holds a JSON string
HasStringMsgtype == json.kind = "object" /\ IsString(json.fields["msgtype"])

\* the wire discriminator of each known variant
VariantDiscriminator ==
    [Audio |-> "m.audio", Emote |-> "m.emote", File |-> "m.file",
     Image |-> "m.image", Location |-> "m.location", Notice |-> "m.notice",
     ServerNotice |-> "m.server_notice", Text |-> "m.text", Video |-> "m.video",
     VerificationRequest |-> "m.key.verification.request"]

C9_DiscriminatorSelectsOneVariant ==
    (Decoded /\ decoded.ok) =>
        /\ decoded.variant \in DOMAIN VariantDiscriminator \cup {"_Custom"}
        /\ decoded.variant # "_Custom" =>
               json.fields["msgtype"] = JsonString(VariantDiscriminator[decoded.variant])
        /\ decoded.variant = "_Custom" =>
               json.fields["msgtype"][2] \notin KnownMsgtypes
        /\ json.fields["msgtype"] = JsonString("m.text") => decoded.variant = "Text"

C9_Witness ==
    /\ Decoded
    /\ json.fields["msgtype"] = JsonString("m.text")
    /\ json.fields["body"] = JsonString("hi")
    /\ decoded.ok
    /\ decoded.variant = "Text"
    /\ decoded.body = "hi"

\* C10: decoding fails and yields no variant whenever the msgtype key is
\* missing, is not a string, or the payload is not a JSON object.
C10_BadDiscriminatorIsError ==
    (Decoded /\ ~HasStringMsgtype) =>
        /\ ~decoded.ok
        /\ decoded.variant = "none"

C10_Witness ==
    /\ Decoded
    /\ json.kind = "object"
    /\ json.fields["msgtype"] = Absent
    /\ json.fields["body"] = JsonString("hi")
    /\ ~decoded.ok

\* the concrete shape the msgtype of the payload selects rejects the payload
SelectedShapeRejects ==
    \A v \in DOMAIN VariantDiscriminator :
        json.fields["msgtype"] = JsonString(VariantDiscriminator[v]) =>
            ~ConcreteShape_deserialize(v, json).ok

\* C11: when the msgtype is a known discriminator and the payload does not
\* satisfy the selected concrete shape, decoding returns an error: neither
\* the custom variant nor any known variant is built.
C11_ShapeMismatchIsError ==
    (Decoded /\ HasStringMsgtype /\ json.fields["msgtype"][2] \in KnownMsgtypes
        /\ SelectedShapeRejects) =>
        /\ ~decoded.ok
        /\ decoded.variant = "none"

C11_Witness ==
    /\ Decoded
    /\ json.fields["msgtype"] = JsonString("m.image")
    /\ json.fields["body"] = JsonNumber
    /\ json.fields["org.example.extra"] # Absent
    /\ ~decoded.ok
    /\ decoded.err = "shape: body: invalid type"

RoomMessageDecoded == roomMessage.done /\ roomMessage.input.kind # "malformed"

\* what each pass gives when it reads the whole of the raw value
RelationPass == OptionRelation_deserialize(roomMessage.input)

MsgtypePass == MessageType_deserialize(roomMessage.input)

\* C26: every pass reads the same raw JSON value, whole: the shape pass of
\* MessageType reads the object the discriminator pass read, and the msgtype
\* pass of RoomMessageEventContent reads what the relation pass read; the
\* relation is decoded first, decoding fails if either pass fails, and a
\* relation error is reported before any msgtype error.
C26_PassesShareRawValue ==
    /\ (Decoded /\ decoded.ok /\ decoded.variant # "_Custom") =>
        /\ JsonString(decoded.msgtype) = json.fields["msgtype"]
        /\ JsonString(decoded.body) = json.fields["body"]
    /\ RoomMessageDecoded =>
        /\ roomMessage.ok <=> (RelationPass.ok /\ MsgtypePass.ok)
        /\ ~RelationPass.ok => roomMessage.err = RelationPass.err
        /\ (RelationPass.ok /\ ~MsgtypePass.ok) => roomMessage.err = MsgtypePass.err
        /\ roomMessage.ok =>
            /\ roomMessage.msgtype = MsgtypePass
            /\ roomMessage.relates_to = RelationPass.value

C26_Witness ==
    /\ RoomMessageDecoded
    /\ roomMessage.input.kind = "object"
    /\ roomMessage.input.fields["m.relates_to"] = JsonNumber
    /\ roomMessage.input.fields["msgtype"] = JsonNumber
    /\ ~roomMessage.ok
    /\ roomMessage.err = "relation: invalid type"

(***************************************************************************)
(* Properties of the stable/unstable field resolution                      *)
(***************************************************************************)
\* From::from has built `resolved` from `dehelper`
Resolved == passes >= 1

\* the aliased attributes of a shape
AliasedAttributes(shape) ==
    IF shape = "file" THEN {"file"} ELSE {"file", "image", "thumbnail", "caption"}

StableSlot(h, a) ==
    CASE a = "file" -> h.file_stable
      [] a = "image" -> h.image_stable
      [] a = "thumbnail" -> h.thumbnail_stable
      [] a = "caption" -> h.caption_stable

UnstableSlot(h, a) ==
    CASE a = "file" -> h.file_unstable
      [] a = "image" -> h.image_unstable
      [] a = "thumbnail" -> h.thumbnail_unstable
      [] a = "caption" -> h.caption_unstable

Canonical(c, a) ==
    CASE a = "file" -> c.file
      [] a = "image" -> c.image
      [] a = "thumbnail" -> c.thumbnail
      [] a = "caption" -> c.caption

\* C13: for every aliased attribute of the file and image shapes the
\* canonical value is the stable value when both are present, the unstable
\* value when only it is present, the stable value when only it is present
\* and absent when neither is present.
C13_AliasPrecedence ==
    Resolved =>
        \A a \in AliasedAttributes(dehelper.shape) :
            LET st == StableSlot(dehelper, a)
                un == UnstableSlot(dehelper, a)
                cv == Canonical(resolved, a)
            IN  /\ (st # NoneOpt /\ un # NoneOpt) => cv = st
                /\ (st = NoneOpt /\ un # NoneOpt) => cv = un
                /\ (st # NoneOpt /\ un = NoneOpt) => cv = st
                /\ (st = NoneOpt /\ un = NoneOpt) => cv = NoneOpt

C13_Witness ==
    /\ passes = 1
    /\ dehelper.shape = "image"
    /\ dehelper.file_stable # NoneOpt
    /\ dehelper.file_unstable # NoneOpt
    /\ dehelper.file_stable # dehelper.file_unstable
    /\ dehelper.image_stable = NoneOpt
    /\ dehelper.image_unstable # NoneOpt
    /\ dehelper.thumbnail_stable = Some(<<>>)
    /\ dehelper.thumbnail_unstable = Some(<<"thumb">>)
    /\ dehelper.caption_stable = NoneOpt
    /\ dehelper.caption_unstable = NoneOpt
    /\ resolved.file = dehelper.file_stable
    /\ resolved.image = dehelper.image_unstable

\* C14: when the file sub-object is present under both its stable and its
\* unstable key, the canonical file is the stable one in its entirety: every
\* sub-field, also one the stable file leaves unset, has the stable value.
C14_NoPartialMerge ==
    (Resolved /\ dehelper.file_stable # NoneOpt /\ dehelper.file_unstable # NoneOpt) =>
        /\ resolved.file # NoneOpt
        /\ resolved.file[1].url = dehelper.file_stable[1].url
        /\ resolved.file[1].info = dehelper.file_stable[1].info

C14_Witness ==
    /\ passes = 1
    /\ dehelper.shape = "file"
    /\ dehelper.file_stable = Some([url |-> "mxc://a", info |-> None])
    /\ dehelper.file_unstable = Some([url |-> "mxc://b", info |-> "enc-b"])
    /\ resolved.file[1].info = None

\* C15: resolving a canonical record again (the resolved values in the
\* stable slots, no unstable value) gives the same canonical values.
C15_ResolutionIdempotent ==
    (passes >= 2) =>
        \A a \in AliasedAttributes(dehelper.shape) :
            /\ UnstableSlot(dehelper, a) = NoneOpt
            /\ Canonical(resolved, a) = StableSlot(dehelper, a)

C15_Witness ==
    /\ passes >= 2
    /\ dehelper.shape = "image"
    /\ resolved.file # NoneOpt
    /\ resolved.thumbnail = Some(<<"thumb">>)
    /\ resolved.caption = NoneOpt

(***************************************************************************)
(* Properties of the identifier validators                                 *)
(***************************************************************************)
\* the three validators have run on `candidate`
Validated == outcome.union # "none"

\* C16: room_id_or_alias_id::validate succeeds if and only if
\* room_id::validate or room_alias_id::validate succeeds, in both build
\* variants.
C16_UnionAcceptance ==
    Validated =>
        (outcome.union = "Ok" <=> (outcome.room_id = "Ok" \/ outcome.alias = "Ok"))

C16_Witness ==
    /\ Validated
    /\ unstable_msc3917
    /\ FirstByte(candidate) = "#"
    /\ outcome.alias = "Ok"
    /\ outcome.room_id # "Ok"
    /\ outcome.union = "Ok"

\* C17: when the candidate starts with '#' and both grammars reject it, the
\* union validator returns the error of the room-alias grammar.
C17_AliasErrorForAliasSigil ==
    (Validated /\ FirstByte(candidate) = "#"
        /\ outcome.room_id # "Ok" /\ outcome.alias # "Ok") =>
        outcome.union = outcome.alias

C17_Witness ==
    /\ Validated
    /\ unstable_msc3917
    /\ FirstByte(candidate) = "#"
    /\ outcome.alias = "MissingColon"
    /\ outcome.room_id = "MissingLeadingSigil"
    /\ outcome.union = "MissingColon"

CreateEncoded == wire.done /\ value.type = "m.room.create"

\* Serialize has written `wire` for the m.space.child content `value`
ChildEncoded == wire.done /\ value.type = "m.space.child"

\* the keys present in the encoded object
PresentKeys == {k \in DOMAIN wire.fields : wire.fields[k] # Absent}

\* C19: room-create encoding omits m.federate when it is true and emits it
\* when false, and omits creator, predecessor and type when absent;
\* space-child encoding omits suggested when false and order when absent, and
\* always emits via, also when it is empty.
C19_EncodingOmitsDefaults ==
    /\ CreateEncoded =>
        /\ "m.federate" \in PresentKeys <=> value.content.federate = FALSE
        /\ value.content.federate = FALSE => wire.fields["m.federate"] = JsonBool(FALSE)
        /\ "creator" \in PresentKeys <=> value.content.creator # None
        /\ "predecessor" \in PresentKeys <=> value.content.predecessor # None
        /\ "type" \in PresentKeys <=> value.content.room_type # None
    /\ ChildEncoded =>
        /\ "suggested" \in PresentKeys <=> value.content.suggested = TRUE
        /\ "order" \in PresentKeys <=> value.content.order # None
        /\ "via" \in PresentKeys
        /\ wire.fields["via"] = <<"array", value.content.via>>

C19_Witness ==
    /\ ChildEncoded
    /\ value.content.via = <<>>
    /\ value.content.order = None
    /\ value.content.suggested = FALSE
    /\ PresentKeys = {"via"}

\* the wire keys of the fields whose value differs from the documented
\* default (m.federate true, room_version V1, every optional field absent)
NonDefaultKeys(c) ==
    (IF c.creator # None THEN {"creator"} ELSE {})
        \cup (IF c.federate # TRUE THEN {"m.federate"} ELSE {})
        \cup (IF c.room_version # V1 THEN {"room_version"} ELSE {})
        \cup (IF c.predecessor # None THEN {"predecessor"} ELSE {})
        \cup (IF c.room_type # None THEN {"type"} ELSE {})
        \cup (IF c.room_root_key # None
              THEN {"org.matrix.msc3917.v1.room_root_key"} ELSE {})
        \cup (IF c.creator_key # None
              THEN {"org.matrix.msc3917.v1.creator_key"} ELSE {})
        \cup (IF c.invited_user_keys # None
              THEN {"org.matrix.msc3917.v1.invited_user_keys"} ELSE {})
        \cup (IF c.signatures # None
              THEN {"org.matrix.msc3917.v1.signatures"} ELSE {})

RoundTripped == parsed.done /\ value.type # "none"

\* C21: for every room-create content and every space-child content,
\* decoding the encoded value gives the value back; a field omitted on encode
\* because it holds its default is restored to that default.
C21_RoundTrip ==
    RoundTripped => parsed.ok /\ parsed.content = value.content

C21_Witness ==
    /\ RoundTripped
    /\ value.type = "m.room.create"
    /\ value.content.federate = TRUE
    /\ wire.fields["m.federate"] = Absent
    /\ parsed.ok
    /\ parsed.content.federate = TRUE

\* Deserialize has run on an m.room.create content object
CreateDecoded == parsed.done /\ DOMAIN wire.fields = CreateKeys(unstable_msc3917)

\* Deserialize has run on an m.space.child content object
ChildDecoded == parsed.done /\ DOMAIN wire.fields = ChildKeys(unstable_msc3917)

\* every key the object has holds a value of the JSON type its field takes
WellTyped ==
    \A k \in DOMAIN wire.fields :
        \/ wire.fields[k] = Absent
        \/ Tag(wire.fields[k]) =
              CASE k \in {"m.federate", "suggested"} -> "bool"
                [] k = "via" -> "array"
                [] k \in {"predecessor", "org.matrix.msc3917.v1.invited_user_keys",
                          "org.matrix.msc3917.v1.signatures"} -> "object"
                [] OTHER -> "string"

\* C22: a room-create object lacking m.federate decodes to federate = true,
\* lacking room_version to room_version = V1, lacking creator, predecessor or
\* type to those attributes absent; a space-child object lacking suggested
\* decodes to suggested = false, lacking order to order absent; none of
\* these absences is a decode error, while a space-child object lacking via
\* is a decode error.
C22_DecodeDefaults ==
    /\ CreateDecoded /\ WellTyped =>
        /\ parsed.ok
        /\ wire.fields["m.federate"] = Absent => parsed.content.federate = TRUE
        /\ wire.fields["room_version"] = Absent => parsed.content.room_version = V1
        /\ wire.fields["creator"] = Absent => parsed.content.creator = None
        /\ wire.fields["predecessor"] = Absent => parsed.content.predecessor = None
        /\ wire.fields["type"] = Absent => parsed.content.room_type = None
    /\ ChildDecoded /\ WellTyped =>
        /\ parsed.ok <=> wire.fields["via"] # Absent
        /\ parsed.ok /\ wire.fields["suggested"] = Absent
              => parsed.content.suggested = FALSE
        /\ parsed.ok /\ wire.fields["order"] = Absent => parsed.content.order = None

C22_Witness ==
    /\ ChildDecoded
    /\ WellTyped
    /\ value = NoValue
    /\ wire.fields["via"] = Absent
    /\ wire.fields["order"] = JsonString("uwu")
    /\ ~parsed.ok

(***************************************************************************)
(* Properties of the possibly redacted tombstone content                   *)
(***************************************************************************)
\* Deserialize has run on a possibly redacted tombstone content object
TombstoneDecoded == parsed.done /\ DOMAIN wire.fields = TombstoneKeys

\* body is missing, null or a string; replacement_room is missing, null or a
\* room ID
TombstoneFieldsValid ==
    /\ Tag(wire.fields["body"]) \in {"absent", "null", "string"}
    /\ \/ Tag(wire.fields["replacement_room"]) \in {"absent", "null"}
       \/ /\ Tag(wire.fields["replacement_room"]) = "string"
          /\ wire.fields["replacement_room"][2] = "!a:a"

\* C23: every combination of present and absent body and replacement_room,
\* both absent included, is a value of the possibly redacted tombstone
\* content, and event_type() of every such value is m.room.tombstone.
C23_TombstoneFieldsIndependent ==
    TombstoneDecoded /\ TombstoneFieldsValid =>
        /\ parsed.ok
        /\ parsed.content.body = None
              <=> Tag(wire.fields["body"]) \in {"absent", "null"}
        /\ parsed.content.replacement_room = None
              <=> Tag(wire.fields["replacement_room"]) \in {"absent", "null"}
        /\ PossiblyRedactedRoomTombstoneEventContent_event_type(parsed.content)
              = "m.room.tombstone"

C23_Witness ==
    /\ TombstoneDecoded
    /\ wire.fields["body"] = Absent
    /\ wire.fields["replacement_room"] = Absent
    /\ parsed.ok
    /\ parsed.content = [body |-> None, replacement_room |-> None]

(***************************************************************************)
(* Properties of the unsigned data                                         *)
(***************************************************************************)
\* `unsignedData` holds a MessageLikeUnsigned
HoldsMessageLike == unsignedData.ok /\ unsignedData.kind = "MessageLike"

\* `unsignedData` holds a StateUnsigned
HoldsState == unsignedData.ok /\ unsignedData.kind = "State"

\* `unsignedData` was decoded from `raw`
FromRaw == raw.kind = "object" /\ unsignedData.kind # "none"

\* the known keys of the two structs
MessageLikeKeys == {"age", "transaction_id", "m.relations"}

StateKeys == {"age", "transaction_id", "prev_content", "m.relations"}

\* `raw` has none of the given keys
LacksKeys(keys) == \A k \in keys : raw.fields[k] = Absent

\* C24: MessageLikeUnsigned::is_empty() is true iff age and transaction_id
\* are absent and relations is empty; StateUnsigned::is_empty() iff also
\* prev_content is absent; the values built by new() are empty; an unsigned
\* object decoded from JSON with none of the struct's known keys is empty.
C24_UnsignedEmptiness ==
    /\ HoldsMessageLike =>
        /\ MessageLikeUnsigned_is_empty(unsignedData.data)
              <=> (/\ unsignedData.data.age = None
                   /\ unsignedData.data.transaction_id = None
                   /\ unsignedData.data.relations = {})
        /\ (unsignedData.data = MessageLikeUnsigned_new)
              => MessageLikeUnsigned_is_empty(unsignedData.data)
        /\ (FromRaw /\ LacksKeys(MessageLikeKeys))
              => MessageLikeUnsigned_is_empty(unsignedData.data)
    /\ HoldsState =>
        /\ StateUnsigned_is_empty(unsignedData.data)
              <=> (/\ unsignedData.data.age = None
                   /\ unsignedData.data.transaction_id = None
                   /\ unsignedData.data.relations = {}
                   /\ unsignedData.data.prev_content = None)
        /\ (unsignedData.data = StateUnsigned_new)
              => StateUnsigned_is_empty(unsignedData.data)
        /\ (FromRaw /\ LacksKeys(StateKeys))
              => StateUnsigned_is_empty(unsignedData.data)
    /\ (FromRaw /\ unsignedData.kind = "MessageLike" /\ LacksKeys(MessageLikeKeys))
          => unsignedData.ok
    /\ (FromRaw /\ unsignedData.kind = "State" /\ LacksKeys(StateKeys))
          => unsignedData.ok

C24_Witness ==
    /\ HoldsMessageLike
    /\ FromRaw
    /\ LacksKeys(MessageLikeKeys)
    /\ raw.fields["org.example.unknown"] # Absent
    /\ raw.fields["prev_content"] # Absent
    /\ MessageLikeUnsigned_is_empty(unsignedData.data)

C27_FirstByteDispatch ==
    (Validated /\ ~unstable_msc3917) =>
        outcome.union =
            CASE FirstByte(candidate) = "#" -> outcome.alias
              [] FirstByte(candidate) = "!" -> outcome.room_id
              [] OTHER -> "MissingLeadingSigil"

C27_Witness ==
    /\ Validated
    /\ ~unstable_msc3917
    /\ ByteLen(candidate) = 0
    /\ outcome.union = "MissingLeadingSigil"

====
